---- MODULE Spec2Model ----
(***************************************************************************)
(* A model of src/quadtree.py: the region quadtree of an image, its build, *)
(* its variance-based compression, its rendering and its node counts.      *)
(*                                                                         *)
(* Numbers.  Colours are numpy floats.  Every number that occurs here is a *)
(* dyadic rational of a few bits, on which float64 arithmetic is exact, so *)
(* a colour channel is kept as the integer  value * ColorDen  and a        *)
(* threshold as the integer  value * 4 .                                   *)
(*                                                                         *)
(* Heap.  A Node object is named by the path of slots that leads to it     *)
(* from the root; a child slot holds TRUE when it references a Node and    *)
(* FALSE when it holds None.  An object no slot references is dropped.     *)
(***************************************************************************)
EXTENDS Integers, Sequences, FiniteSets, TLC

\* ------------------------------------------------------------------ bounds
\* Images have side 2^0 .. 2^MaxLevel (plus the invalid shapes below).
MaxLevel == 2
\* Number of build/compress/render calls made on one Quadtree.
MaxCalls == 3
\* Number of nested build_quadtree_recursive frames the interpreter allows
\* before it raises RecursionError.
RecursionLimit == 5

\* ------------------------------------------------------------ number model
RECURSIVE Pow(_, _)
Pow(b, e) == IF e = 0 THEN 1 ELSE b * Pow(b, e - 1)

\* Denominator of the colour channels: a merge divides by 4 once per level.
ColorDen == Pow(4, MaxLevel)

\* Python's int() on the float n/2: truncation toward zero.
IntHalf(n) == IF n >= 0 THEN n \div 2 ELSE -((-n) \div 2)

\* None, the absent colour.  A present colour is a non-empty tuple of channels.
None == << >>

\* ------------------------------------------------------------------ inputs
Offsets == {0, 1} \X {0, 1}

\* 2x2 tiles an input image is made of: flat ones and [[10,10],[10,12]].
Flat(v) == [d \in Offsets |-> v]
Mixed == [d \in Offsets |-> IF d = <<1, 1>> THEN 12 ELSE 10]

\* Image shapes <<height, width>>: the power-of-two squares, a square that is
\* not a power of two, and a rectangle.
ValidShapes == { <<Pow(2, k), Pow(2, k)>> : k \in 0..MaxLevel }
InvalidShapes == { <<3, 3>>, <<2, 4>> }
Shapes == ValidShapes \cup InvalidShapes

\* The pixel of intensity v in an image with ch channels.
PixelColor(v, ch) ==
    IF ch = 1 THEN << v * ColorDen >>
    ELSE << v * ColorDen, 10 * ColorDen, (22 - v) * ColorDen >>

Pixels(h, w) == (0..(w - 1)) \X (0..(h - 1))

\* The quadrant of an input image that differs from the other three: the
\* upper right one.
Marked == <<1, 0>>

\* The image of shape <<h, w>> with ch channels in which the marked quadrant
\* repeats tile a and the other three quadrants repeat tile b.
MakeImage(h, w, ch, a, b) ==
    [ h |-> h, w |-> w, ch |-> ch,
      px |-> [ xy \in Pixels(h, w) |->
                 LET quadrant == << (2 * xy[1]) \div w, (2 * xy[2]) \div h >>
                     tile     == IF quadrant = Marked THEN a ELSE b
                 IN  PixelColor(tile[<< xy[1] % 2, xy[2] % 2 >>], ch) ] ]

\* 2-D (grayscale) arrays, whose pixels are scalars.
GrayImages ==
    { MakeImage(s[1], s[2], 1, t[1], t[2]) :
        s \in Shapes,
        t \in { <<Flat(10), Flat(10)>>, <<Flat(12), Flat(10)>>, <<Mixed, Flat(10)>>,
                <<Flat(10), Mixed>>, <<Mixed, Mixed>> } }

\* 3-D arrays with three channels.
ColorImages ==
    { MakeImage(s[1], s[2], 3, t[1], t[2]) :
        s \in Shapes,
        t \in { <<Flat(10), Flat(10)>>, <<Flat(12), Flat(10)>>, <<Mixed, Flat(10)>> } }

Images == GrayImages \cup ColorImages

\* Values the allocator may have left in a buffer that np.empty returns.
Garbage == {10, 12}

\* np.empty(shape): one arbitrary value stands for the buffer's contents.
Empty(img, g) ==
    [ img EXCEPT !.px = [ xy \in DOMAIN img.px |-> PixelColor(g, img.ch) ] ]

\* Thresholds handed to compress_quadtree, times 4: 0, 0.75 and 100.
Thresholds == {0, 3, 400}

\* -------------------------------------------------------------------- heap
Root == << >>

\* Node.__init__
Node(color, corners, level) ==
    [ color |-> color,
      nw |-> FALSE, ne |-> FALSE, sw |-> FALSE, se |-> FALSE,
      ul_x |-> corners[1], ul_y |-> corners[2],
      dr_x |-> corners[3], dr_y |-> corners[4],
      level |-> level ]

Slot(node, c) ==
    CASE c = "nw" -> node.nw
      [] c = "ne" -> node.ne
      [] c = "sw" -> node.sw
      [] c = "se" -> node.se

IsPrefix(p, q) == Len(p) <= Len(q) /\ SubSeq(q, 1, Len(p)) = p

\* node.<c> = child : the slot references the new object; the object the slot
\* referenced before, and all it owned, are dropped.
SetChild(tree, p, c, child) ==
    LET q    == Append(p, c)
        kept == IF Slot(tree[p], c)
                THEN [ r \in { r \in DOMAIN tree : ~IsPrefix(q, r) } |-> tree[r] ]
                ELSE tree
        node == CASE c = "nw" -> [ tree[p] EXCEPT !.nw = TRUE ]
                  [] c = "ne" -> [ tree[p] EXCEPT !.ne = TRUE ]
                  [] c = "sw" -> [ tree[p] EXCEPT !.sw = TRUE ]
                  [] c = "se" -> [ tree[p] EXCEPT !.se = TRUE ]
    IN  (q :> child) @@ [ kept EXCEPT ![p] = node ]

\* Quadtree.__init__
Quadtree(img) ==
    [ r \in {Root} |-> Node(None, << 0, 0, img.w - 1, img.h - 1 >>, 0) ]

\* ---------------------------------------------------------------- geometry
\* Variant: the shifts of 'ne' and 'sw' exchanged.
compute_image_corners_swapped(node, child) ==
    LET x_shift == IF child \in {"sw", "se"} THEN 1 ELSE 0
        y_shift == IF child \in {"ne", "se"} THEN 1 ELSE 0
        width  == node.dr_x - node.ul_x + 1
        height == node.dr_y - node.ul_y + 1
        ul_x == IntHalf(2 * node.ul_x + x_shift * width)
        ul_y == IntHalf(2 * node.ul_y + y_shift * height)
        dr_x == IntHalf(2 * ul_x + width - 2)
        dr_y == IntHalf(2 * ul_y + height - 2)
    IN  << ul_x, ul_y, dr_x, dr_y >>

compute_image_corners(node, child) ==
    LET x_shift == IF child \in {"ne", "se"} THEN 1 ELSE 0
        y_shift == IF child \in {"sw", "se"} THEN 1 ELSE 0
        \* twice half_width and twice half_height, which are floats
        width  == node.dr_x - node.ul_x + 1
        height == node.dr_y - node.ul_y + 1
        ul_x == IntHalf(2 * node.ul_x + x_shift * width)
        ul_y == IntHalf(2 * node.ul_y + y_shift * height)
        dr_x == IntHalf(2 * ul_x + width - 2)
        dr_y == IntHalf(2 * ul_y + height - 2)
    IN  << ul_x, ul_y, dr_x, dr_y >>

\* ------------------------------------------------------------------- build
RECURSIVE build_quadtree_recursive(_, _, _, _)
RECURSIVE build_child(_, _, _, _, _)

\* node.<c> = Node(None, compute_image_corners(node, c), node.level+1)
\* build_quadtree_recursive(qt, node.<c>)
\* An exception in an earlier sibling has already left the function.
build_child(img, st, p, c, depth) ==
    IF st.err # "ok" THEN st
    ELSE LET node  == st.tree[p]
             child == Node(None, compute_image_corners(node, c), node.level + 1)
         IN  build_quadtree_recursive(img, SetChild(st.tree, p, c, child),
                                      Append(p, c), depth + 1)

build_quadtree_recursive(img, tree, p, depth) ==
    LET node == tree[p] IN
    IF (node.dr_x - node.ul_x) = 0 /\ (node.dr_y - node.ul_y) = 0
    THEN [ tree |-> [ tree EXCEPT ![p].color = img.px[<< node.ul_x, node.ul_y >>] ],
           err  |-> "ok" ]
    ELSE IF depth >= RecursionLimit
    THEN [ tree |-> tree, err |-> "RecursionError" ]
    ELSE LET s0 == [ tree |-> tree, err |-> "ok" ]
             s1 == build_child(img, s0, p, "nw", depth)
             s2 == build_child(img, s1, p, "ne", depth)
             s3 == build_child(img, s2, p, "sw", depth)
         IN  build_child(img, s3, p, "se", depth)

\* ---------------------------------------------------------------- compress
RECURSIVE SumSeq(_)
SumSeq(s) == IF s = << >> THEN 0 ELSE Head(s) + SumSeq(Tail(s))

\* np.mean([c1, c2, c3, c4], axis=0)
Mean(c1, c2, c3, c4) ==
    [ i \in 1..Len(c1) |-> (c1[i] + c2[i] + c3[i] + c4[i]) \div 4 ]

\* np.var([c1, c2, c3, c4], axis=0), times 64: with m the mean of a channel,
\* the sum over the four colours of (4c - 4m)^2 is 16 * 4 * var.
Var64(c1, c2, c3, c4) ==
    [ i \in 1..Len(c1) |->
        LET s == c1[i] + c2[i] + c3[i] + c4[i]
        IN  (4 * c1[i] - s) * (4 * c1[i] - s) + (4 * c2[i] - s) * (4 * c2[i] - s)
          + (4 * c3[i] - s) * (4 * c3[i] - s) + (4 * c4[i] - s) * (4 * c4[i] - s) ]

\* Variant: difference <= threshold.
SimilarOrEqual(c1, c2, c3, c4, threshold) ==
    SumSeq(Var64(c1, c2, c3, c4)) <= 16 * threshold * ColorDen * ColorDen

\* difference < threshold, where difference = np.sum(np.var(...)) and the
\* colours carry the factor ColorDen and the threshold the factor 4.
Similar(c1, c2, c3, c4, threshold) ==
    SumSeq(Var64(c1, c2, c3, c4)) < 16 * threshold * ColorDen * ColorDen

combine_colors(tree, p, threshold) ==
    LET c1 == tree[Append(p, "nw")].color
        c2 == tree[Append(p, "ne")].color
        c3 == tree[Append(p, "sw")].color
        c4 == tree[Append(p, "se")].color
    IN  IF c1 = None \/ c2 = None \/ c3 = None \/ c4 = None
        THEN None
        ELSE IF Similar(c1, c2, c3, c4, threshold)
             THEN Mean(c1, c2, c3, c4)
             ELSE None

\* Variant: the children are kept.
PruneNothing(tree, p) == tree

\* Variant: node.se is not reset.
PruneThree(tree, p) ==
    [ r \in { q \in DOMAIN tree : ~(Len(p) < Len(q) /\ IsPrefix(p, q))
                                    \/ IsPrefix(Append(p, "se"), q) } |->
        IF r = p
        THEN [ tree[p] EXCEPT !.nw = FALSE, !.ne = FALSE, !.sw = FALSE ]
        ELSE tree[r] ]

\* node.nw = node.ne = node.sw = node.se = None
Prune(tree, p) ==
    [ [ r \in { q \in DOMAIN tree : ~(Len(p) < Len(q) /\ IsPrefix(p, q)) } |-> tree[r] ]
        EXCEPT ![p] = [ tree[p] EXCEPT !.nw = FALSE, !.ne = FALSE,
                                       !.sw = FALSE, !.se = FALSE ] ]

RECURSIVE compress_quadtree_recursive(_, _, _)
RECURSIVE compress_child(_, _, _, _)

\* compress_quadtree_recursive(qt, node.<c>, threshold); on None the callee's
\* first read, node.nw, raises AttributeError.
compress_child(st, p, c, threshold) ==
    IF st.err # "ok" THEN st
    ELSE IF ~Slot(st.tree[p], c) THEN [ st EXCEPT !.err = "AttributeError" ]
    ELSE compress_quadtree_recursive(st.tree, Append(p, c), threshold)

\* Variant: the node is combined before its children are compressed.
compress_quadtree_preorder(tree, p, threshold) ==
    LET node == tree[p] IN
    IF ~node.nw /\ ~node.ne /\ ~node.sw /\ ~node.se
    THEN [ tree |-> tree, err |-> "ok" ]
    ELSE IF ~(node.nw /\ node.ne /\ node.sw /\ node.se)
    THEN [ tree |-> tree, err |-> "AttributeError" ]
    ELSE LET color   == combine_colors(tree, p, threshold)
             colored == [ tree EXCEPT ![p].color = color ]
             s0 == [ tree |-> colored, err |-> "ok" ]
             s1 == compress_child(s0, p, "nw", threshold)
             s2 == compress_child(s1, p, "ne", threshold)
             s3 == compress_child(s2, p, "sw", threshold)
         IN  IF color # None THEN [ tree |-> Prune(colored, p), err |-> "ok" ]
             ELSE compress_child(s3, p, "se", threshold)

compress_quadtree_recursive(tree, p, threshold) ==
    LET node == tree[p] IN
    IF ~node.nw /\ ~node.ne /\ ~node.sw /\ ~node.se
    THEN [ tree |-> tree, err |-> "ok" ]
    ELSE LET s0 == [ tree |-> tree, err |-> "ok" ]
             s1 == compress_child(s0, p, "nw", threshold)
             s2 == compress_child(s1, p, "ne", threshold)
             s3 == compress_child(s2, p, "sw", threshold)
             s4 == compress_child(s3, p, "se", threshold)
             color   == combine_colors(s4.tree, p, threshold)
             colored == [ s4.tree EXCEPT ![p].color = color ]
         IN  IF s4.err # "ok" THEN s4
             ELSE [ tree |-> IF color # None THEN Prune(colored, p) ELSE colored,
                    err  |-> "ok" ]

\* ------------------------------------------------------------------ render
Rect(node) ==
    { xy \in (node.ul_x .. node.dr_x) \X (node.ul_y .. node.dr_y) : TRUE }

Fill(img, area, color) ==
    [ img EXCEPT !.px = [ xy \in area \cap DOMAIN img.px |-> color ] @@ img.px ]

\* np.array([0, 0, 0]) as it lands in one pixel
Black(img) == [ i \in 1..img.ch |-> 0 ]

\* Whether numpy can broadcast np.array([0, 0, 0]) into a slice of n pixels:
\* a 3-D image with three channels takes it in every pixel, a 2-D image takes
\* it only as three scalar pixels.
Broadcasts(img, n) == img.ch = 3 \/ n = 3

\* Variant: the slices end at dr_y and dr_x instead of dr_y+1 and dr_x+1.
draw_color_short(img, node, draw_box) ==
    LET area == { xy \in Rect(node) : xy[1] < node.dr_x /\ xy[2] < node.dr_y }
    IN  [ img |-> Fill(img, area \cap DOMAIN img.px, node.color), err |-> "ok" ]

draw_color(img, node, draw_box) ==
    LET filled == Fill(img, Rect(node) \cap DOMAIN img.px, node.color)
        column == { xy \in Rect(node) : xy[1] = node.ul_x }
        row    == { xy \in Rect(node) : xy[2] = node.ul_y }
        boxed1 == Fill(filled, column, Black(img))
        boxed2 == Fill(boxed1, row, Black(img))
    IN  IF ~draw_box THEN [ img |-> filled, err |-> "ok" ]
        ELSE IF ~Broadcasts(img, Cardinality(column))
             THEN [ img |-> filled, err |-> "ValueError" ]
        ELSE IF ~Broadcasts(img, Cardinality(row))
             THEN [ img |-> boxed1, err |-> "ValueError" ]
        ELSE [ img |-> boxed2, err |-> "ok" ]

RECURSIVE quadtree_to_image_recursive(_, _, _, _)
RECURSIVE render_child(_, _, _, _, _)

\* Variant: a None child is skipped.
render_child_skips_none(st, tree, p, c, draw_box) ==
    IF st.err # "ok" \/ ~Slot(tree[p], c) THEN st
    ELSE quadtree_to_image_recursive(st.img, tree, Append(p, c), draw_box)

\* quadtree_to_image_recursive(qt, node.<c>, draw_box); on None the callee's
\* first read, node.color, raises AttributeError.
render_child(st, tree, p, c, draw_box) ==
    IF st.err # "ok" THEN st
    ELSE IF ~Slot(tree[p], c) THEN [ st EXCEPT !.err = "AttributeError" ]
    ELSE quadtree_to_image_recursive(st.img, tree, Append(p, c), draw_box)

\* Variant: the recursion into node.se is missing.
quadtree_to_image_recursive_three(img, tree, p, draw_box) ==
    LET node == tree[p] IN
    IF node.color # None
    THEN draw_color(img, node, draw_box)
    ELSE LET s0 == [ img |-> img, err |-> "ok" ]
             s1 == render_child(s0, tree, p, "nw", draw_box)
             s2 == render_child(s1, tree, p, "ne", draw_box)
         IN  render_child(s2, tree, p, "sw", draw_box)

quadtree_to_image_recursive(img, tree, p, draw_box) ==
    LET node == tree[p] IN
    IF node.color # None
    THEN draw_color(img, node, draw_box)
    ELSE LET s0 == [ img |-> img, err |-> "ok" ]
             s1 == render_child(s0, tree, p, "nw", draw_box)
             s2 == render_child(s1, tree, p, "ne", draw_box)
             s3 == render_child(s2, tree, p, "sw", draw_box)
         IN  render_child(s3, tree, p, "se", draw_box)

\* ------------------------------------------------------------------- count
RECURSIVE count_nodes(_, _)
count_child(tree, p, c) ==
    IF Slot(tree[p], c) THEN count_nodes(tree, Append(p, c)) ELSE 0

\* Variant: node.se is not counted.
count_nodes_three(tree, p) ==
    1 + count_child(tree, p, "nw") + count_child(tree, p, "ne")
      + count_child(tree, p, "sw")

count_nodes(tree, p) ==
    1 + count_child(tree, p, "nw") + count_child(tree, p, "ne")
      + count_child(tree, p, "sw") + count_child(tree, p, "se")

\* N / 2 is a float division: exact for an even N, and for an odd N > 1 (or
\* N = 0) no later halving equals 1, so the recursion ends in RecursionError.
RECURSIVE max_num_nodes(_)
max_num_nodes(N) ==
    IF N = 1 THEN [ err |-> "ok", num_nodes |-> 1 ]
    ELSE IF N % 2 # 0 \/ N = 0 THEN [ err |-> "RecursionError", num_nodes |-> 0 ]
    ELSE LET rest == max_num_nodes(N \div 2)
         IN  [ err |-> rest.err,
               num_nodes |-> IF rest.err = "ok" THEN N * N + rest.num_nodes ELSE 0 ]

\* ------------------------------------------------------------------- state
\* image, nodes : qt.image and the Node objects reachable from qt.root
\* source       : the array the caller handed to Quadtree(image)
\* hist         : the build/compress/render calls made so far, each with its
\*                arguments and how it ended
\* op, err, ret : the last call, how it ended, and what count_nodes returned
VARIABLES image, nodes, source, hist, op, err, ret
vars == << image, nodes, source, hist, op, err, ret >>

Call(o, t, b, e) == [ op |-> o, threshold |-> t, draw_box |-> b, err |-> e ]

Init ==
    /\ image \in Images
    /\ nodes = Quadtree(image)
    /\ source = image
    /\ hist = << >>
    /\ op = "init"
    /\ err = "ok"
    /\ ret = 0

\* build_quadtree(qt)
build_quadtree ==
    /\ Len(hist) < MaxCalls
    /\ \E r \in { build_quadtree_recursive(image, nodes, Root, 1) } :
           /\ nodes' = r.tree
           /\ err' = r.err
           /\ hist' = Append(hist, Call("build", 0, FALSE, r.err))
    /\ op' = "build"
    /\ ret' = 0
    /\ UNCHANGED << image, source >>

\* compress_quadtree(qt, threshold)
compress_quadtree ==
    /\ Len(hist) < MaxCalls
    /\ \E threshold \in Thresholds :
         \E r \in { compress_quadtree_recursive(nodes, Root, threshold) } :
             /\ nodes' = r.tree
             /\ err' = r.err
             /\ hist' = Append(hist, Call("compress", threshold, FALSE, r.err))
    /\ op' = "compress"
    /\ ret' = 0
    /\ UNCHANGED << image, source >>

\* quadtree_to_image(qt, draw_box): qt.image is rebound to a fresh buffer,
\* painted, and returned.
quadtree_to_image ==
    /\ Len(hist) < MaxCalls
    /\ \E draw_box \in BOOLEAN, g \in Garbage :
         \E r \in { quadtree_to_image_recursive(Empty(image, g), nodes, Root, draw_box) } :
             /\ image' = r.img
             /\ err' = r.err
             /\ hist' = Append(hist, Call("render", 0, draw_box, r.err))
    /\ op' = "render"
    /\ ret' = 0
    /\ UNCHANGED << nodes, source >>

\* count_nodes(qt.root)
count ==
    /\ op # "count"
    /\ ret' = count_nodes(nodes, Root)
    /\ op' = "count"
    /\ err' = "ok"
    /\ UNCHANGED << image, nodes, source, hist >>

Next ==
    \/ build_quadtree
    \/ compress_quadtree
    \/ quadtree_to_image
    \/ count

Spec == Init /\ [][Next]_vars

\* ============================================================== properties
Last(h) == h[Len(h)]
Quadrants == << "nw", "ne", "sw", "se" >>

RECURSIVE PowerOfTwo(_)
PowerOfTwo(n) == n = 1 \/ (n > 1 /\ n % 2 = 0 /\ PowerOfTwo(n \div 2))

RECURSIVE Log2(_)
Log2(n) == IF n <= 1 THEN 0 ELSE 1 + Log2(n \div 2)

RECURSIVE SumPow4(_)
SumPow4(k) == IF k = 0 THEN 1 ELSE Pow(4, k) + SumPow4(k - 1)

\* A square image whose side is a power of two.
ValidShape(img) == img.h = img.w /\ PowerOfTwo(img.w)

AllFour(node) == node.nw /\ node.ne /\ node.sw /\ node.se
NoChild(node) == ~node.nw /\ ~node.ne /\ ~node.sw /\ ~node.se
StrictPrefix(q, p) == Len(q) < Len(p) /\ IsPrefix(q, p)

\* The first call on the Quadtree was build_quadtree and it returned.
FirstBuilt == hist # << >> /\ hist[1].op = "build" /\ hist[1].err = "ok"
\* ... and build_quadtree was not called again.
BuiltOnce == FirstBuilt /\ \A i \in 2..Len(hist) : hist[i].op # "build"
\* This step is a call of o.
Calls(o) == Len(hist') = Len(hist) + 1 /\ Last(hist').op = o

Colored(tree) == { p \in DOMAIN tree : tree[p].color # None }
\* The nodes a traversal that stops at coloured nodes arrives at.
Visited(tree) ==
    { p \in DOMAIN tree : \A q \in DOMAIN tree : StrictPrefix(q, p) => tree[q].color = None }
Uniform(img) == \A xy, uv \in DOMAIN img.px : img.px[xy] = img.px[uv]

\* The tree build_quadtree makes of the caller's image on a new Quadtree.
Fresh == build_quadtree_recursive(source, Quadtree(source), Root, 1).tree

\* The 2x2 single-channel image [[10,10],[10,12]].
Example ==
    [ h |-> 2, w |-> 2, ch |-> 1,
      px |-> [ xy \in Pixels(2, 2) |->
                 IF xy = <<1, 1>> THEN << 12 * ColorDen >> ELSE << 10 * ColorDen >> ] ]

\* ---------------------------------------------------------------------- C1
\* C1: on a power-of-two square image of side N = 2^k, count_nodes on the root
\* that build_quadtree produced returns max_num_nodes(N), which is the sum of
\* 4^i for i = 0..k.
C1_CountIsMaxNumNodes ==
    (op = "count" /\ hist # << >> /\ Last(hist).op = "build" /\ ValidShape(image))
    => LET m == max_num_nodes(image.w)
       IN  /\ m.err = "ok"
           /\ ret = m.num_nodes
           /\ ret = SumPow4(Log2(image.w))

C1_Witness ==
    /\ op = "count"
    /\ hist = << Call("build", 0, FALSE, "ok") >>
    /\ image.h = 4 /\ image.w = 4
    /\ ret = 21

\* ---------------------------------------------------------------------- C2
\* C2: compress_quadtree is idempotent: a second call with the same threshold,
\* right after the first, leaves every node's colour and child slots as the
\* first call left them.
C2_CompressIdempotent ==
    [][ ( /\ hist # << >>
          /\ Last(hist).op = "compress"
          /\ Calls("compress")
          /\ Last(hist').threshold = Last(hist).threshold )
        => (nodes' = nodes /\ Last(hist').err = Last(hist).err) ]_vars

C2_Witness ==
    /\ Len(hist) = 3
    /\ FirstBuilt
    /\ hist[2] = Call("compress", 3, FALSE, "ok")
    /\ hist[3] = hist[2]
    /\ source.w = 4 /\ source.h = 4
    /\ Cardinality(DOMAIN nodes) \in 2..20

\* ---------------------------------------------------------------------- C3
\* C3: on a power-of-two square image, build_quadtree, then no compression or
\* compress_quadtree with threshold 0, then quadtree_to_image with draw_box
\* off returns a buffer equal to the original image in every pixel.
C3_LosslessRoundTrip ==
    ( /\ Len(hist) >= 2
      /\ hist[1].op = "build"
      /\ \A i \in 2..(Len(hist) - 1) : hist[i].op = "compress" /\ hist[i].threshold = 0
      /\ Last(hist).op = "render" /\ ~Last(hist).draw_box
      /\ ValidShape(source) )
    => (Last(hist).err = "ok" /\ image = source)

C3_Witness ==
    /\ hist = << Call("build", 0, FALSE, "ok"), Call("compress", 0, FALSE, "ok"),
                 Call("render", 0, FALSE, "ok") >>
    /\ source.w = 4 /\ source.h = 4 /\ source.ch = 3
    /\ ~Uniform(source)
    /\ image = source

\* ---------------------------------------------------------------------- C4
\* Every node has all four children or none, and has a colour exactly when it
\* has no children.
Structured(tree) ==
    \A p \in DOMAIN tree :
        /\ AllFour(tree[p]) \/ NoChild(tree[p])
        /\ (tree[p].color # None) <=> NoChild(tree[p])

\* C4 as stated: the structural invariant holds after every call of any
\* sequence of build_quadtree, compress_quadtree and quadtree_to_image calls
\* on a constructed Quadtree (here even only over a power-of-two square image).
C4_AnySequence == (hist # << >> /\ ValidShape(source)) => Structured(nodes)

\* C4 as amended: the structural invariant holds after one build_quadtree that
\* returned, on the empty root, followed by any sequence of compress_quadtree
\* and quadtree_to_image calls.
C4_AfterOneBuild == BuiltOnce => Structured(nodes)

C4_Witness ==
    /\ BuiltOnce
    /\ Len(hist) = 3
    /\ hist[2].op = "compress" /\ hist[3].op = "render"
    /\ source.w = 4 /\ source.h = 4
    /\ Cardinality(DOMAIN nodes) \in 2..20

\* ---------------------------------------------------------------------- C5
\* C5: build_quadtree on an image that is not a power-of-two square fails with
\* InvalidImageDimensions before any recursion and leaves the root without
\* children.
C5_RejectsInvalidShape ==
    (hist = << Call("build", 0, FALSE, err) >> /\ ~ValidShape(image))
    => (err = "InvalidImageDimensions" /\ nodes = Quadtree(image))

\* ---------------------------------------------------------------------- C6
\* C6 as stated: quadtree_to_image leaves the nodes and the Quadtree's image
\* as they were (here: a render with draw_box off that returns, of a tree
\* built from a power-of-two square image).
C6_RenderKeepsImage ==
    [][ ( /\ Calls("render")
          /\ Last(hist').err = "ok" /\ ~Last(hist').draw_box
          /\ FirstBuilt /\ ValidShape(source) )
        => (nodes' = nodes /\ image' = image) ]_vars

\* C6 as amended: quadtree_to_image leaves every node as it was and never
\* touches the caller's array, but rebinds qt.image to the buffer it renders:
\* on a Quadtree over a power-of-two square image a render that repeats the
\* previous render returns the same buffer, and a later build_quadtree reads
\* its pixel colours from the rendered buffer.
C6_RenderKeepsNodes ==
    [][ /\ Calls("render") =>
           /\ nodes' = nodes
           /\ source' = source
           /\ ( /\ hist # << >>
                /\ Last(hist).op = "render" /\ Last(hist).err = "ok"
                /\ Last(hist') = Last(hist)
                /\ ValidShape(source) ) => image' = image
        /\ (Calls("build") /\ Last(hist').err = "ok") =>
           \A p \in DOMAIN nodes' :
               NoChild(nodes'[p]) =>
                   nodes'[p].color = image.px[<< nodes'[p].ul_x, nodes'[p].ul_y >>]
      ]_vars

C6_Witness ==
    /\ Len(hist) = 3
    /\ FirstBuilt
    /\ hist[2] = Call("render", 0, TRUE, "ok")
    /\ hist[3] = Call("build", 0, FALSE, "ok")
    /\ source.w = 4 /\ source.h = 4
    /\ image # source
    /\ \E p \in DOMAIN nodes :
           /\ NoChild(nodes[p])
           /\ nodes[p].color = image.px[<< nodes[p].ul_x, nodes[p].ul_y >>]
           /\ nodes[p].color # source.px[<< nodes[p].ul_x, nodes[p].ul_y >>]

\* ---------------------------------------------------------------------- C7
\* A traversal that stops at coloured nodes arrives at a node without colour
\* that lacks a child.
MeetsCorrupt(tree) ==
    \E p \in Visited(tree) : tree[p].color = None /\ ~AllFour(tree[p])

\* C7 as stated: on such a tree quadtree_to_image and count_nodes fail.
C7_BothFail ==
    (op \in {"render", "count"} /\ MeetsCorrupt(nodes)) => err # "ok"

\* C7 as amended: on such a tree quadtree_to_image fails (with draw_box off,
\* by the AttributeError of reading the absent child), while count_nodes
\* never fails: it counts an absent child as 0 and returns the number of nodes.
C7_RenderFailsCountReturns ==
    /\ (op = "render" /\ MeetsCorrupt(nodes)) =>
           /\ err # "ok"
           /\ ~Last(hist).draw_box => err = "AttributeError"
    /\ op = "count" => (err = "ok" /\ ret = Cardinality(DOMAIN nodes))

C7_Witness ==
    /\ op = "count"
    /\ Len(hist) = 2
    /\ hist[1] = Call("build", 0, FALSE, "RecursionError")
    /\ hist[2] = Call("render", 0, FALSE, "AttributeError")
    /\ nodes[Root].nw /\ ~nodes[Root].se
    /\ ret = Cardinality(DOMAIN nodes)
    /\ ret > 1

\* ---------------------------------------------------------------------- C8
\* The merge rule, bottom-up, for every node at the given depth or below it:
\* a node without children keeps its colour; any other node gets the mean of
\* its children's colours if they all have one and their summed population
\* variance is below the threshold, else None.  Four times the variance of a
\* channel is sum(c^2) - (sum c)^2 / 4.
MergeRule(c, threshold) ==
    LET sum == [ i \in 1..Len(c[1]) |-> c[1][i] + c[2][i] + c[3][i] + c[4][i] ]
        squares == [ i \in 1..Len(c[1]) |->
                       c[1][i] * c[1][i] + c[2][i] * c[2][i]
                     + c[3][i] * c[3][i] + c[4][i] * c[4][i] ]
        variance16 == SumSeq([ i \in 1..Len(c[1]) |-> 4 * squares[i] - sum[i] * sum[i] ])
    IN  IF \E k \in 1..4 : c[k] = None THEN None
        ELSE IF variance16 < 4 * threshold * ColorDen * ColorDen
             THEN [ i \in 1..Len(c[1]) |-> sum[i] \div 4 ]
             ELSE None

RECURSIVE MergedFrom(_, _, _)
MergedFrom(tree, threshold, depth) ==
    IF \A p \in DOMAIN tree : Len(p) # depth THEN [ p \in {} |-> None ]
    ELSE CHOOSE merged \in
           { [ p \in { q \in DOMAIN tree : Len(q) = depth } \cup DOMAIN below |->
                 IF Len(p) # depth THEN below[p]
                 ELSE IF NoChild(tree[p]) THEN tree[p].color
                 ELSE MergeRule([ k \in 1..4 |-> below[Append(p, Quadrants[k])] ],
                                threshold) ]
             : below \in { MergedFrom(tree, threshold, depth + 1) } } : TRUE

\* C8: a compress_quadtree call that returns leaves exactly the nodes none of
\* whose ancestors merged, each with the colour of the merge rule, without
\* children if it merged, with its four children if it did not.  On the image
\* [[10,10],[10,12]] that is 1 node of colour 10.5 at threshold 100 and 5
\* nodes at threshold 0.
C8_MergeRule ==
    [][ (Calls("compress") /\ Last(hist').err = "ok") =>
          \E merged \in { MergedFrom(nodes, Last(hist').threshold, 0) } :
          LET t == Last(hist').threshold
              kept(p) == \A i \in 0..(Len(p) - 1) : merged[SubSeq(p, 1, i)] = None
          IN  /\ DOMAIN nodes' = { p \in DOMAIN nodes : kept(p) }
              /\ \A p \in DOMAIN nodes' :
                    /\ nodes'[p].color = merged[p]
                    /\ IF NoChild(nodes[p]) \/ nodes'[p].color # None
                       THEN NoChild(nodes'[p])
                       ELSE AllFour(nodes'[p])
                    /\ << nodes'[p].ul_x, nodes'[p].ul_y, nodes'[p].dr_x,
                          nodes'[p].dr_y, nodes'[p].level >>
                       = << nodes[p].ul_x, nodes[p].ul_y, nodes[p].dr_x,
                            nodes[p].dr_y, nodes[p].level >>
              /\ (source = Example /\ Len(hist') = 2 /\ FirstBuilt) =>
                    /\ t = 400 => /\ DOMAIN nodes' = {Root}
                                  /\ nodes'[Root].color = << (21 * ColorDen) \div 2 >>
                    /\ t = 0 => Cardinality(DOMAIN nodes') = 5
      ]_vars

C8_Witness ==
    /\ source = Example
    /\ hist = << Call("build", 0, FALSE, "ok"), Call("compress", 400, FALSE, "ok") >>
    /\ DOMAIN nodes = {Root}
    /\ nodes[Root].color = << (21 * ColorDen) \div 2 >>

\* ---------------------------------------------------------------------- C9
\* The four children of node p are its four equal quadrants: nw upper left,
\* ne upper right, sw lower left, se lower right.
QuadrantsOf(tree, p) ==
    LET n  == tree[p]
        hw == (n.dr_x - n.ul_x + 1) \div 2
        hh == (n.dr_y - n.ul_y + 1) \div 2
        corners(q) == << tree[q].ul_x, tree[q].ul_y, tree[q].dr_x, tree[q].dr_y >>
    IN  /\ 2 * hw = n.dr_x - n.ul_x + 1
        /\ 2 * hh = n.dr_y - n.ul_y + 1
        /\ corners(Append(p, "nw")) = << n.ul_x, n.ul_y, n.ul_x + hw - 1, n.ul_y + hh - 1 >>
        /\ corners(Append(p, "ne")) = << n.ul_x + hw, n.ul_y, n.dr_x, n.ul_y + hh - 1 >>
        /\ corners(Append(p, "sw")) = << n.ul_x, n.ul_y + hh, n.ul_x + hw - 1, n.dr_y >>
        /\ corners(Append(p, "se")) = << n.ul_x + hw, n.ul_y + hh, n.dr_x, n.dr_y >>

Covering(tree, xy) ==
    { p \in Colored(tree) :
        /\ tree[p].ul_x <= xy[1] /\ xy[1] <= tree[p].dr_x
        /\ tree[p].ul_y <= xy[2] /\ xy[2] <= tree[p].dr_y }

\* C9: after build_quadtree on a power-of-two square image and any compress
\* calls, the coloured nodes are the ones a render paints, every pixel lies in
\* the rectangle of exactly one of them, children are the four equal
\* quadrants of their parent, and a render with draw_box off gives each pixel
\* the colour of the one node that covers it.
C9_ExactTiling ==
    (BuiltOnce /\ ValidShape(source)) =>
        /\ Colored(nodes) = Visited(nodes) \cap Colored(nodes)
        /\ \A xy \in DOMAIN image.px : Cardinality(Covering(nodes, xy)) = 1
        /\ \A p \in DOMAIN nodes : ~NoChild(nodes[p]) => QuadrantsOf(nodes, p)
        /\ (op = "render" /\ ~Last(hist).draw_box) =>
              /\ err = "ok"
              /\ \A xy \in DOMAIN image.px :
                    \A p \in Covering(nodes, xy) : image.px[xy] = nodes[p].color

C9_Witness ==
    /\ BuiltOnce
    /\ op = "render" /\ ~Last(hist).draw_box /\ err = "ok"
    /\ hist[2].op = "compress"
    /\ source.w = 4 /\ source.h = 4
    /\ \E p, q \in Colored(nodes) : nodes[p].level = 1 /\ nodes[q].level = 2

\* --------------------------------------------------------------------- C10
\* The largest threshold of the compress calls made so far.
MaxThreshold ==
    CHOOSE t \in { hist[i].threshold : i \in 2..Len(hist) } :
        \A i \in 2..Len(hist) : hist[i].threshold <= t

\* C10: after build_quadtree and then only compress_quadtree calls, the tree
\* is the one a single compress_quadtree with the largest of the thresholds
\* leaves on the freshly built tree, and it has no more nodes than a single
\* compression with any smaller threshold leaves.
C10_ComposeToMax ==
    ( /\ FirstBuilt
      /\ Len(hist) >= 2
      /\ \A i \in 2..Len(hist) : hist[i].op = "compress" )
    => /\ nodes = compress_quadtree_recursive(Fresh, Root, MaxThreshold).tree
       /\ \A t \in Thresholds :
             t <= MaxThreshold =>
                Cardinality(DOMAIN nodes)
                  <= Cardinality(DOMAIN compress_quadtree_recursive(Fresh, Root, t).tree)

C10_Witness ==
    /\ hist = << Call("build", 0, FALSE, "ok"), Call("compress", 3, FALSE, "ok"),
                 Call("compress", 400, FALSE, "ok") >>
    /\ source.w = 4 /\ source.h = 4
    /\ DOMAIN nodes = {Root}
    /\ Cardinality(DOMAIN compress_quadtree_recursive(Fresh, Root, 3).tree) \in 2..20
====
